---- MODULE Spec2Model ----
\* A model of src/static/js/settings.js: the settings registry, the scope
\* resolver (getValue), the mutator (setValue), the loader (loadSettings),
\* the ignore-scope control, the exporter and the registry validator.
\*
\* JavaScript values are encoded as strings. A JavaScript string is the
\* TLA+ string with the same characters; the values that are not strings
\* are written in angle brackets, so the string "true" and the boolean
\* <true> are different values, as they are in the program.
EXTENDS Integers, Sequences, FiniteSets, TLC

VARIABLES settings, urlVars, dom, val, ignoredScopes, loaded, widgets, cookie,
          lastOp, lastSet, nops

vars == <<settings, urlVars, dom, val, ignoredScopes, loaded, widgets, cookie,
          lastOp, lastSet, nops>>

\* ------------------------------------------------------------ bounds
\* Number of setValue / loadSettings calls explored in one behaviour.
MaxOps == 2

\* ------------------------------------------------------------ values
Undefined == "<undefined>"
Null == "<null>"
True == "<true>"
False == "<false>"
\* a change callback of a setting (setting, value) -> void
Fn == "<function>"
\* the computed binding of showAuthorColors (registry lines 106-110)
FnNoColors == "<function noColors>"

\* JavaScript ToBoolean on the encoded values: undefined, null, false and
\* the empty string are falsy, everything else the model uses is truthy.
Truthy(v) == v \notin {Undefined, Null, False, ""}

\* typeof v == "function"
IsFunction(v) == v \in {Fn, FnNoColors}

\* v.length == 0 for a string v
EmptyString(v) == v = ""

\* a == b (loose equality) between a value and a string literal: a string
\* compares by characters; undefined, null and the booleans never equal
\* one of the non-numeric string literals the program compares with.
LooseEqString(a, lit) == a = lit

\* scopes (line 20), in their declared order
scopes == <<"local", "global", "get">>

\* array.indexOf(x), 0-based, -1 when x is not a member
indexOf(arr, x) ==
  IF \E k \in 1..Len(arr) : arr[k] = x
  THEN (CHOOSE k \in 1..Len(arr) : arr[k] = x /\ \A m \in 1..(k-1) : arr[m] # x) - 1
  ELSE -1

ScopeSet == {scopes[k] : k \in 1..Len(scopes)}

\* the per-scope value array of a setting right after `setting.val = []`
EmptyVal == [s \in ScopeSet |-> Undefined]

\* a setting before loadSettings has run: it has no `val` property at all
NoVal == [defined |-> FALSE, v |-> EmptyVal]

\* ------------------------------------------------------------ registry
\* A control binding; a property the binding does not carry is Undefined.
Ctl(scope, type, id, name, callback) ==
  [scope |-> scope, type |-> type, id |-> id, name |-> name, callback |-> callback]

GetCtl(scope, name) == Ctl(scope, "get", Undefined, name, Undefined)
WidgetCtl(scope, id) == Ctl(scope, "control", id, Undefined, Undefined)
CustomCtl(scope, cb) == Ctl(scope, "custom", Undefined, Undefined, cb)

\* `hasControls` is FALSE for a setting without a `controls` property (its
\* `controls` is then the empty sequence here, and undefined in the program).
Setting(name, defaultValue, callback, controls) ==
  [name |-> name, defaultValue |-> defaultValue, callback |-> callback,
   hasControls |-> TRUE, controls |-> controls]

SettingWithoutControls(name, defaultValue, callback) ==
  [name |-> name, defaultValue |-> defaultValue, callback |-> callback,
   hasControls |-> FALSE, controls |-> <<>>]

\* Entries of the settings table (lines 49-161). The table's callbacks are
\* all null; the registries below also carry settings with a change
\* callback, which the table's format allows (lines 29-33).
SettingName == Setting("name", Null, Null, <<GetCtl("get", "userName")>>)

SettingLanguage == Setting("language", "en", Fn, <<GetCtl("get", "lang")>>)

SettingIgnoreGlobal ==
  Setting("ignoreGlobal", False, Fn,
          <<GetCtl("get", "ignoreGlobal"),
            WidgetCtl("local", "options-ignore-global")>>)

SettingShowAuthorColors ==
  Setting("showAuthorColors", True, Null,
          <<WidgetCtl("local", "options-colorscheck"),
            WidgetCtl("global", "options-colorscheck-global"),
            CustomCtl("get", FnNoColors)>>)

\* Well-formed registries built from entries of the table.
RegistryA == <<SettingName, SettingIgnoreGlobal>>
RegistryB == <<SettingLanguage, SettingShowAuthorColors>>

\* Malformed registries: a query-parameter binding without its parameter
\* name, and a setting without a controls list.
RegistryNoParam ==
  <<SettingName,
    Setting("rtl", False, Fn, <<Ctl("get", "get", Undefined, Undefined, Undefined)>>)>>
RegistryNoControls ==
  <<SettingWithoutControls("userId", Null, Null), SettingIgnoreGlobal>>

\* ------------------------------------------------------------ environment
\* window.location.href after `slice(indexOf('?') + 1).split('&')`, each
\* piece after `split('=')`: a sequence of pieces, each a non-empty
\* sequence of strings. A href without '?' yields the whole href as the
\* only piece.
HrefPlain == <<<<"http://pad/p/x">>>>
HrefUserName == <<<<"userName", "bob">>>>
HrefIgnoreGlobal == <<<<"ignoreGlobal", "true">>, <<"lang", "de">>>>
HrefNoColors == <<<<"ignoreGlobal", "false">>, <<"noColors", "true">>>>
HrefColors == <<<<"noColors", "false">>, <<"lang", "">>, <<"userName">>>>
HrefRepeated ==
  <<<<"userName", "a", "b">>, <<"ignoreGlobal", "false">>, <<"ignoreGlobal", "true">>>>

ParamNames == {"userName", "lang", "ignoreGlobal", "noColors", "rtl"}

\* getUrlVars (lines 408-419): vars[hash[0]] = hash[1] for every piece in
\* order, a later piece overwriting an earlier one with the same key; a
\* piece without '=' assigns undefined. Only the keys in ParamNames are
\* kept: the registries look up no other key.
RECURSIVE getUrlVarsFrom(_, _, _)
getUrlVarsFrom(hashes, i, vs) ==
  IF i > Len(hashes) THEN vs
  ELSE LET hash == hashes[i]
           v == IF Len(hash) >= 2 THEN hash[2] ELSE Undefined
       IN getUrlVarsFrom(hashes, i + 1,
            IF hash[1] \in ParamNames THEN [vs EXCEPT ![hash[1]] = v] ELSE vs)

getUrlVars(hashes) == getUrlVarsFrom(hashes, 1, [k \in ParamNames |-> Undefined])

\* urlVars[key]
UrlVar(key) == IF key \in DOMAIN urlVars THEN urlVars[key] ELSE Undefined

\* The widgets of the page: what $("#" + id) matches. `length` is the size
\* of the matched set, tagName and type those of its first element.
WidgetIds == {"options-ignore-global", "options-colorscheck", "options-colorscheck-global"}

NoElement == [length |-> 0, tagName |-> Undefined, type |-> Undefined]
Checkbox == [length |-> 1, tagName |-> "INPUT", type |-> "checkbox"]
TextInput == [length |-> 1, tagName |-> "INPUT", type |-> "text"]
Select == [length |-> 1, tagName |-> "SELECT", type |-> Undefined]
Div == [length |-> 1, tagName |-> "DIV", type |-> Undefined]

DomAll(e) == [id \in WidgetIds |-> e]
DomWith(id, e) == [DomAll(Checkbox) EXCEPT ![id] = e]

\* The pages explored: a registry, the href the page is opened with and
\* the widgets it holds.
Page(reg, href, d) == [settings |-> reg, href |-> href, dom |-> d]

Pages ==
  { Page(RegistryA, HrefUserName, DomAll(Checkbox)),
    Page(RegistryA, HrefIgnoreGlobal, DomAll(Select)),
    Page(RegistryA, HrefNoColors, DomWith("options-ignore-global", Div)),
    Page(RegistryA, HrefRepeated, DomWith("options-ignore-global", NoElement)),
    Page(RegistryB, HrefPlain, DomAll(Checkbox)),
    Page(RegistryB, HrefColors, DomWith("options-colorscheck-global", Select)),
    Page(RegistryB, HrefIgnoreGlobal, DomWith("options-colorscheck-global", NoElement)),
    Page(RegistryB, HrefNoColors, DomWith("options-colorscheck", TextInput)),
    Page(RegistryNoParam, HrefPlain, DomAll(Checkbox)),
    Page(RegistryNoControls, HrefUserName, DomAll(Checkbox)) }

\* String.prototype.toLowerCase on the tag names of the page
toLowerCase(s) ==
  CASE s = "INPUT" -> "input"
    [] s = "SELECT" -> "select"
    [] s = "DIV" -> "div"
    [] OTHER -> s

\* ------------------------------------------------------------ handlers
\* The handlers run to completion on one thread. Each is computed on a
\* record `st` of the state it may change:
\*   val      the `val` array of every setting (NoVal before it is created)
\*   widgets  what has last been written to each widget of the page
\*   cookie   the external store, slot name -> payload
\*   loaded   the `loaded` flag
\*   events   the observable effects of the call so far, in order
\*   thrown   the exception that ended the call, "" when none
\* An exception ends the call and keeps every assignment made before it.
TypeError == "TypeError"
UnknownScope == "Unknown scope"
ScopeDoesNotExist == "Scope does not exist."
DefinitionErrors == "Errors occurred when checking the setting-definitions. Check the log."
ControlDoesNotExist == "settings error: control does not exist"
OnlyCheckboxes == "settings error: only checkboxes are supported"
UnsupportedControl == "settings error: unsuppored control"

Throw(st, e) == [st EXCEPT !.thrown = e]

Emit(st, type, target, value) ==
  [st EXCEPT !.events = Append(@, [type |-> type, target |-> target, value |-> value])]

\* exports.getSetting: the index of the first setting with that name, 0 for
\* the `null` returned when there is none.
RECURSIVE getSettingFrom(_, _)
getSettingFrom(name, i) ==
  IF i > Len(settings) THEN 0
  ELSE IF settings[i].name = name THEN i
  ELSE getSettingFrom(name, i + 1)

\* Mutant: an unknown name yields the first setting instead of null.
getSettingOrFirst(name) ==
  IF getSettingFrom(name, 1) = 0 THEN 1 ELSE getSettingFrom(name, 1)

getSetting(name) == getSettingFrom(name, 1)

\* The loop of exports.getValue over `scopes`, from index i (1-based) on.
RECURSIVE getValueFrom(_, _)
getValueFrom(v, i) ==
  IF i > Len(scopes) THEN Null
  ELSE IF indexOf(ignoredScopes, scopes[i]) = -1 /\ v[scopes[i]] # Undefined
       THEN v[scopes[i]]
       ELSE getValueFrom(v, i + 1)

\* Mutant: the scan runs from the last scope to the first.
RECURSIVE getValueDownFrom(_, _)
getValueDownFrom(v, i) ==
  IF i < 1 THEN Null
  ELSE IF indexOf(ignoredScopes, scopes[i]) = -1 /\ v[scopes[i]] # Undefined
       THEN v[scopes[i]]
       ELSE getValueDownFrom(v, i - 1)

getValueLoopLastFirst(v) == getValueDownFrom(v, Len(scopes))

\* Mutant: the scan does not look at the ignored scopes.
RECURSIVE getValueAnyFrom(_, _)
getValueAnyFrom(v, i) ==
  IF i > Len(scopes) THEN Null
  ELSE IF v[scopes[i]] # Undefined THEN v[scopes[i]]
  ELSE getValueAnyFrom(v, i + 1)

getValueLoopNoIgnore(v) == getValueAnyFrom(v, 1)

getValueLoop(v) == getValueFrom(v, 1)

\* Mutant: `setting.val` is read before the loop looks at the ignored
\* scopes.
getValueReadFirst(vals, name) ==
  LET i == getSetting(name) IN
  IF i = 0 THEN [thrown |-> TypeError, ret |-> Undefined]
  ELSE IF ~vals[i].defined THEN [thrown |-> TypeError, ret |-> Undefined]
  ELSE [thrown |-> "", ret |-> getValueLoop(vals[i].v)]

\* exports.getValue(name) on the values `vals`: [thrown, ret]. The test of
\* lines 171-172 reads `setting.val[scope]` only for a scope that is not
\* ignored: with every scope ignored nothing is read and the call returns
\* null. Otherwise reading `setting.val` of the null setting, or `[scope]`
\* of a missing `val`, is a TypeError.
getValue(vals, name) ==
  LET i == getSetting(name) IN
  IF \A k \in 1..Len(scopes) : indexOf(ignoredScopes, scopes[k]) # -1
  THEN [thrown |-> "", ret |-> Null]
  ELSE IF i = 0 THEN [thrown |-> TypeError, ret |-> Undefined]
  ELSE IF ~vals[i].defined THEN [thrown |-> TypeError, ret |-> Undefined]
  ELSE [thrown |-> "", ret |-> getValueLoop(vals[i].v)]

\* padutils.setCheckbox(node, value): the box is checked iff value is truthy
setCheckbox(value) == IF Truthy(value) THEN True ELSE False

\* setControlSettingValue(setting, name, value), `control` the binding.
\* prop("tagName") of an empty matched set is undefined, so line 388 throws
\* a TypeError before the length test of line 390 is reached.
setControlSettingValue(st, control, name, value) ==
  LET el == dom[control.id] IN
  IF el.tagName = Undefined THEN Throw(st, TypeError)
  ELSE IF el.length = 0 THEN Throw(st, ControlDoesNotExist)
  ELSE LET tagName == toLowerCase(el.tagName) IN
    CASE tagName = "input" ->
           IF el.type # "checkbox" THEN Throw(st, OnlyCheckboxes)
           ELSE Emit([st EXCEPT !.widgets[control.id] = setCheckbox(value)],
                     "widget", control.id, value)
      [] tagName = "select" ->
           Emit([st EXCEPT !.widgets[control.id] = value], "widget", control.id, value)
      [] OTHER -> Throw(st, UnsupportedControl)

\* Mutant: a value is exported when it is defined, falsy or not.
exportRowDefined(vals, i, scope) ==
  [sc \in ScopeSet |->
     IF vals[i].v[sc] # Undefined /\ (scope = sc \/ ~Truthy(scope))
     THEN vals[i].v[sc] ELSE Undefined]

\* The inner loop of exports.exportSettings for setting i: out[name][scope]
\* for every scope whose value is truthy and that is asked for.
exportRow(vals, i, scope) ==
  [sc \in ScopeSet |->
     IF Truthy(vals[i].v[sc]) /\ (scope = sc \/ ~Truthy(scope))
     THEN vals[i].v[sc] ELSE Undefined]

RECURSIVE exportFrom(_, _, _, _)
exportFrom(vals, scope, i, out) ==
  IF i > Len(settings) THEN [thrown |-> "", out |-> out]
  ELSE IF ~vals[i].defined THEN [thrown |-> TypeError, out |-> out]
  ELSE LET name == settings[i].name
           row == exportRow(vals, i, scope)
       IN exportFrom(vals, scope, i + 1,
            [n \in DOMAIN out \cup {name} |-> IF n = name THEN row ELSE out[n]])

\* exports.exportSettings(scope): [thrown, out], out a mapping from setting
\* name to (scope -> value), Undefined marking a scope that is left out.
exportSettings(vals, scope) == exportFrom(vals, scope, 1, <<>>)

\* Mutant: the values of every scope are written to the store.
saveToCookieAllScopes(st) ==
  LET exported == exportSettings(st.val, Undefined) IN
  IF exported.thrown # "" THEN Throw(st, exported.thrown)
  ELSE Emit([st EXCEPT !.cookie = [slot \in {"epl_prefs"} |-> exported.out]],
            "save", "epl_prefs", exported.out)

\* saveToCookie: padcookie.saveCookie("epl_prefs", exportSettings("local"))
saveToCookie(st) ==
  LET exported == exportSettings(st.val, "local") IN
  IF exported.thrown # "" THEN Throw(st, exported.thrown)
  ELSE Emit([st EXCEPT !.cookie = [slot \in {"epl_prefs"} |-> exported.out]],
            "save", "epl_prefs", exported.out)

\* The loop of exports.setValue over the controls of setting i, from j on.
RECURSIVE setValueControls(_, _, _, _, _)
setValueControls(st, i, j, scope, value) ==
  IF st.thrown # "" \/ j > Len(settings[i].controls) THEN st
  ELSE LET c == settings[i].controls[j] IN
    setValueControls(
      IF c.scope = scope /\ c.type = "control"
      THEN setControlSettingValue(st, c, settings[i].name, value)
      ELSE st,
      i, j + 1, scope, value)

\* setting.callback(setting, exports.getValue(name)), when there is one
callCallback(st, name, i) ==
  IF Truthy(settings[i].callback)
  THEN Emit(st, "callback", settings[i].name, getValue(st.val, name).ret)
  ELSE st

\* Mutant: the store is written before the callback is called.
setValueNotifySaveFirst(st, name, i) ==
  callCallback(IF st.loaded THEN saveToCookie(st) ELSE st, name, i)

\* what exports.setValue does after its last control is written
setValueNotify(st, name, i) ==
  LET s1 == callCallback(st, name, i) IN
  IF s1.loaded THEN saveToCookie(s1) ELSE s1

\* exports.setValue(name, scope, value)
setValue(st, name, scope, value) ==
  IF indexOf(scopes, scope) = -1 THEN Throw(st, UnknownScope)
  ELSE LET i == getSetting(name) IN
    IF i = 0 THEN Throw(st, TypeError)
    ELSE IF ~st.val[i].defined THEN Throw(st, TypeError)
    ELSE LET s1 == [st EXCEPT !.val[i].v[scope] = value]
             s2 == setValueControls(s1, i, 1, scope, value)
         IN IF s2.thrown # "" THEN s2 ELSE setValueNotify(s2, name, i)

\* ------------------------------------------------------------ validator
\* logSettingsError(errors, msg): the message is pushed onto `errors` and
\* written to the console. A message is modelled by its fixed text, the
\* scope name it quotes (ignored-scope messages) and the setting and
\* control indices it carries (0-based as in the program, -1 where the
\* message names none).
Msg(text, i, j) == [msg |-> text, arg |-> Undefined, setting |-> i, control |-> j]
MsgScope(text, scope) == [msg |-> text, arg |-> scope, setting |-> -1, control |-> -1]

logSettingsError(errors, msg) == Append(errors, msg)

\* lines 304-308
RECURSIVE checkIgnoredScopes(_, _, _)
checkIgnoredScopes(ign, k, errors) ==
  IF k > Len(ign) THEN errors
  ELSE checkIgnoredScopes(ign, k + 1,
         IF indexOf(scopes, ign[k]) = -1
         THEN logSettingsError(errors, MsgScope("ignored scope does not exist", ign[k]))
         ELSE errors)

validTypes == <<"control", "get", "custom">>

\* lines 330-340: the type and scope checks of control j (1-based here) of
\* setting i
checkControlTypeScope(c, i, j, errors) ==
  LET e1 == IF ~Truthy(c.type)
            THEN logSettingsError(errors, Msg("no type for control", i - 1, j - 1))
            ELSE errors
      e2 == IF indexOf(validTypes, c.type) = -1
            THEN logSettingsError(e1, Msg("invalid type", i - 1, j - 1))
            ELSE e1
      e3 == IF ~Truthy(c.scope)
            THEN logSettingsError(e2, Msg("no scope for control", i - 1, j - 1))
            ELSE e2
  IN IF indexOf(scopes, c.scope) = -1
     THEN logSettingsError(e3, Msg("invalid scope", i - 1, j - 1))
     ELSE e3

\* Mutant: the parameter name of a query-parameter binding is not checked.
checkControlKindNoParam(c, i, j, errors) ==
  CASE c.type = "control" ->
         IF ~Truthy(c.id) \/ EmptyString(c.id)
         THEN logSettingsError(errors, Msg("ID of control not given", i - 1, j - 1))
         ELSE errors
    [] c.type = "custom" ->
         IF ~Truthy(c.callback)
         THEN logSettingsError(errors, Msg("Callback not given", i - 1, j - 1))
         ELSE IF ~IsFunction(c.callback)
         THEN logSettingsError(errors, Msg("Callback is not a function", i - 1, j - 1))
         ELSE errors
    [] OTHER -> errors

\* lines 342-362: the checks that depend on the type of the control
checkControlKind(c, i, j, errors) ==
  CASE c.type = "control" ->
         IF ~Truthy(c.id) \/ EmptyString(c.id)
         THEN logSettingsError(errors, Msg("ID of control not given", i - 1, j - 1))
         ELSE errors
    [] c.type = "get" ->
         IF ~Truthy(c.name) \/ EmptyString(c.name)
         THEN logSettingsError(errors, Msg("Name of get-parameter not given", i - 1, j - 1))
         ELSE errors
    [] c.type = "custom" ->
         IF ~Truthy(c.callback)
         THEN logSettingsError(errors, Msg("Callback not given", i - 1, j - 1))
         ELSE IF ~IsFunction(c.callback)
         THEN logSettingsError(errors, Msg("Callback is not a function", i - 1, j - 1))
         ELSE errors
    [] OTHER -> errors

\* lines 330-362: the checks of control j of setting i
checkControl(c, i, j, errors) ==
  checkControlKind(c, i, j, checkControlTypeScope(c, i, j, errors))

RECURSIVE checkControls(_, _, _, _)
checkControls(reg, i, j, errors) ==
  IF j > Len(reg[i].controls) THEN errors
  ELSE checkControls(reg, i, j + 1, checkControl(reg[i].controls[j], i, j, errors))

\* lines 310-364: the checks of setting i and of the settings after it
RECURSIVE checkSettings(_, _, _)
checkSettings(reg, i, errors) ==
  IF i > Len(reg) THEN errors
  ELSE LET setting == reg[i]
           e1 == IF ~Truthy(setting.name) \/ EmptyString(setting.name)
                 THEN logSettingsError(errors, Msg("name of setting not given", i - 1, -1))
                 ELSE errors
       IN IF ~setting.hasControls
          THEN checkSettings(reg, i + 1,
                 logSettingsError(e1, Msg("controls of setting not given", i - 1, -1)))
          ELSE checkSettings(reg, i + 1, checkControls(reg, i, 1, e1))

\* the `errors` array checkSettingsArray has built when it reaches line 366
collectErrors(reg, ign) == checkSettings(reg, 1, checkIgnoredScopes(ign, 1, <<>>))

\* Mutant: a single error does not fail the validation.
errorsMoreThanOne(errors) == Len(errors) > 1

\* `errors != 0` (line 366): the array is converted to a number through its
\* string, the messages joined by commas. The empty array gives "" and so
\* 0; every message starts with "settings error: ", so the string of a
\* non-empty array is no numeral, converts to NaN, and NaN != 0.
errorsNotZero(errors) == Len(errors) # 0

\* checkSettingsArray: [thrown, errors]
checkSettingsArray(reg, ign) ==
  LET errors == collectErrors(reg, ign) IN
  [thrown |-> IF errorsNotZero(errors) THEN DefinitionErrors ELSE "",
   errors |-> errors]

\* ------------------------------------------------------------ loader
\* A computed binding's callback(setting, scope). The one of the table
\* (lines 106-110) returns urlVars["noColors"] == "false" when the
\* parameter is defined and nothing (undefined) otherwise.
callCustom(cb) ==
  IF cb = FnNoColors
  THEN IF UrlVar("noColors") # Undefined
       THEN (IF LooseEqString(UrlVar("noColors"), "false") THEN True ELSE False)
       ELSE Undefined
  ELSE Undefined

\* lines 245-261: control c seeds the value array v of its setting
seedControl(v, c) ==
  CASE c.type = "get" ->
         LET paramValue == UrlVar(c.name)
             coerced == IF LooseEqString(paramValue, "true") THEN True
                        ELSE IF LooseEqString(paramValue, "false") THEN False
                        ELSE paramValue
         IN IF Truthy(coerced) THEN [v EXCEPT ![c.scope] = coerced] ELSE v
    [] c.type = "custom" -> [v EXCEPT ![c.scope] = callCustom(c.callback)]
    [] OTHER -> v

RECURSIVE seedControls(_, _, _)
seedControls(v, controls, j) ==
  IF j > Len(controls) THEN v
  ELSE seedControls(seedControl(v, controls[j]), controls, j + 1)

\* Mutant: scope local is left without the default.
seedSettingNoDefault(i) == seedControls(EmptyVal, settings[i].controls, 1)

\* lines 240-262: the value array of setting i after seeding
seedSetting(i) ==
  seedControls([EmptyVal EXCEPT !["local"] = settings[i].defaultValue],
               settings[i].controls, 1)

\* lines 264-268: commit every defined scope of setting i, from scope j on
RECURSIVE commitScopes(_, _, _)
commitScopes(st, i, j) ==
  IF st.thrown # "" \/ j > Len(scopes) THEN st
  ELSE commitScopes(
         IF st.val[i].v[scopes[j]] # Undefined
         THEN setValue(st, settings[i].name, scopes[j], st.val[i].v[scopes[j]])
         ELSE st,
         i, j + 1)

\* lines 237-269: the first loop of loadSettings, from setting i on
RECURSIVE loadFrom(_, _)
loadFrom(st, i) ==
  IF st.thrown # "" \/ i > Len(settings) THEN st
  ELSE loadFrom(
         commitScopes([st EXCEPT !.val[i] = [defined |-> TRUE, v |-> seedSetting(i)]], i, 1),
         i + 1)

\* Mutant: no callback is called when loading has finished.
finalCallbacksSkipped(st, i) == st

\* lines 272-276: the callbacks called when loading has finished
RECURSIVE finalCallbacks(_, _)
finalCallbacks(st, i) ==
  IF i > Len(settings) THEN st
  ELSE finalCallbacks(callCallback(st, settings[i].name, i), i + 1)

\* Mutant: the load ends without its write to the store.
finishLoadNoSave(st) == [st EXCEPT !.loaded = TRUE]

\* lines 278-279
finishLoad(st) == saveToCookie([st EXCEPT !.loaded = TRUE])

\* Mutant: a commit that fails does not end the load.
loadSettingsPastFailure(st) ==
  LET chk == checkSettingsArray(settings, ignoredScopes) IN
  IF chk.thrown # "" THEN Throw(st, chk.thrown)
  ELSE finishLoad(finalCallbacks([loadFrom(st, 1) EXCEPT !.thrown = ""], 1))

\* exports.loadSettings
loadSettings(st) ==
  LET chk == checkSettingsArray(settings, ignoredScopes) IN
  IF chk.thrown # "" THEN Throw(st, chk.thrown)
  ELSE LET s1 == loadFrom(st, 1) IN
       IF s1.thrown # "" THEN s1 ELSE finishLoad(finalCallbacks(s1, 1))

\* Mutant: the scope is pushed without looking for it in the array first.
setIgnoreScopeAlwaysPush(ign, scope, ignore) ==
  IF indexOf(scopes, scope) = -1 THEN [thrown |-> ScopeDoesNotExist, ign |-> ign]
  ELSE LET currentIndex == indexOf(ign, scope) IN
    IF Truthy(ignore)
    THEN [thrown |-> "", ign |-> Append(ign, scope)]
    ELSE IF currentIndex # -1
    THEN [thrown |-> "",
          ign |-> SubSeq(ign, 1, currentIndex) \o SubSeq(ign, currentIndex + 2, Len(ign))]
    ELSE [thrown |-> "", ign |-> ign]

\* exports.setIgnoreScope(scope, ignore) on the array ign: [thrown, ign]
setIgnoreScope(ign, scope, ignore) ==
  IF indexOf(scopes, scope) = -1 THEN [thrown |-> ScopeDoesNotExist, ign |-> ign]
  ELSE LET currentIndex == indexOf(ign, scope) IN
    IF Truthy(ignore) /\ currentIndex = -1
    THEN [thrown |-> "", ign |-> Append(ign, scope)]
    ELSE IF ~Truthy(ignore) /\ currentIndex # -1
    THEN [thrown |-> "",
          ign |-> SubSeq(ign, 1, currentIndex) \o SubSeq(ign, currentIndex + 2, Len(ign))]
    ELSE [thrown |-> "", ign |-> ign]

\* ------------------------------------------------------------ state machine
\* what the callers pass in
NameArgs == {settings[i].name : i \in 1..Len(settings)} \cup {"nosuch"}
ScopeArgs == ScopeSet \cup {"bogus"}
ValueArgs == {Undefined, False, "de"}
ExportArgs == {Undefined, "local"}

\* The last call made: its name, arguments and outcome.
Op(op, name, scope, value, thrown, ret, out, events, errors) ==
  [op |-> op, name |-> name, scope |-> scope, value |-> value, thrown |-> thrown,
   ret |-> ret, out |-> out, events |-> events, errors |-> errors]

NoOp == Op("none", Undefined, Undefined, Undefined, "", Undefined, <<>>, <<>>, <<>>)

\* The last setValue call, when it returned normally and no later setValue
\* or loadSettings call has touched the values since (`returned` is TRUE).
NoSet == [returned |-> FALSE, name |-> Undefined, scope |-> Undefined, value |-> Undefined]

Before ==
  [val |-> val, widgets |-> widgets, cookie |-> cookie, loaded |-> loaded,
   events |-> <<>>, thrown |-> ""]

Becomes(st) ==
  /\ val' = st.val
  /\ widgets' = st.widgets
  /\ cookie' = st.cookie
  /\ loaded' = st.loaded

Init ==
  /\ \E p \in Pages :
       /\ settings = p.settings
       /\ urlVars = getUrlVars(p.href)
       /\ dom = p.dom
  /\ val = [i \in 1..Len(settings) |-> NoVal]
  /\ ignoredScopes = <<>>
  /\ loaded = FALSE
  /\ widgets = [id \in WidgetIds |-> Undefined]
  /\ cookie = <<>>
  /\ lastOp = NoOp
  /\ lastSet = NoSet
  /\ nops = 0

LoadSettings ==
  /\ nops < MaxOps
  /\ LET st == loadSettings(Before) IN
       /\ Becomes(st)
       /\ lastOp' = Op("loadSettings", Undefined, Undefined, Undefined, st.thrown,
                       Undefined, <<>>, st.events,
                       checkSettingsArray(settings, ignoredScopes).errors)
  /\ lastSet' = NoSet
  /\ nops' = nops + 1
  /\ UNCHANGED <<settings, urlVars, dom, ignoredScopes>>

SetValue ==
  /\ nops < MaxOps
  /\ \E name \in NameArgs, scope \in ScopeArgs, value \in ValueArgs :
       LET st == setValue(Before, name, scope, value) IN
       /\ Becomes(st)
       /\ lastOp' = Op("setValue", name, scope, value, st.thrown, Undefined, <<>>,
                       st.events, <<>>)
       /\ lastSet' = IF st.thrown = ""
                      THEN [returned |-> TRUE, name |-> name, scope |-> scope,
                            value |-> value]
                      ELSE NoSet
  /\ nops' = nops + 1
  /\ UNCHANGED <<settings, urlVars, dom, ignoredScopes>>

\* Mutant: a toggle that returns calls every callback and, when loaded,
\* writes the store.
SetIgnoreScopeNotifying ==
  /\ \E scope \in ScopeArgs, ignore \in {True, False} :
       LET r == setIgnoreScope(ignoredScopes, scope, ignore)
           st == IF r.thrown # "" THEN Before
                 ELSE IF loaded THEN saveToCookie(finalCallbacks(Before, 1))
                 ELSE finalCallbacks(Before, 1)
       IN /\ ignoredScopes' = r.ign
          /\ Becomes(st)
          /\ lastOp' = Op("setIgnoreScope", Undefined, scope, ignore, r.thrown,
                          Undefined, <<>>, st.events, <<>>)
  /\ UNCHANGED <<settings, urlVars, dom, lastSet, nops>>

SetIgnoreScope ==
  /\ \E scope \in ScopeArgs, ignore \in {True, False} :
       LET r == setIgnoreScope(ignoredScopes, scope, ignore) IN
       /\ ignoredScopes' = r.ign
       /\ lastOp' = Op("setIgnoreScope", Undefined, scope, ignore, r.thrown,
                       Undefined, <<>>, <<>>, <<>>)
  /\ UNCHANGED <<settings, urlVars, dom, val, loaded, widgets, cookie, lastSet, nops>>

\* exports.getSetting(name): the call returns the setting (named here by
\* its name) or null
GetSetting ==
  /\ \E name \in NameArgs :
       lastOp' = Op("getSetting", name, Undefined, Undefined, "",
                    IF getSetting(name) = 0 THEN Null ELSE settings[getSetting(name)].name,
                    <<>>, <<>>, <<>>)
  /\ UNCHANGED <<settings, urlVars, dom, val, ignoredScopes, loaded, widgets, cookie,
               lastSet, nops>>

GetValue ==
  /\ \E name \in NameArgs :
       LET r == getValue(val, name) IN
       lastOp' = Op("getValue", name, Undefined, Undefined, r.thrown, r.ret, <<>>,
                    <<>>, <<>>)
  /\ UNCHANGED <<settings, urlVars, dom, val, ignoredScopes, loaded, widgets, cookie,
               lastSet, nops>>

ExportSettings ==
  /\ \E scope \in ExportArgs :
       LET r == exportSettings(val, scope) IN
       lastOp' = Op("exportSettings", Undefined, scope, Undefined, r.thrown,
                    Undefined, IF r.thrown = "" THEN r.out ELSE <<>>, <<>>, <<>>)
  /\ UNCHANGED <<settings, urlVars, dom, val, ignoredScopes, loaded, widgets, cookie,
               lastSet, nops>>

Next ==
  LoadSettings \/ SetValue \/ SetIgnoreScope \/ GetValue \/ GetSetting \/ ExportSettings

Spec == Init /\ [][Next]_vars

\* ------------------------------------------------------------ validator runs
\* The validator as a function of the registry and of the ignored-scope
\* array: loadSettings is run on registries and arrays drawn from the
\* sets below, the malformed ones included.
VScopes == {Undefined, "get", "bogus"}
VTypes == {Undefined, "control", "get", "custom", "bogus"}
VIds == {Undefined, "", "options-colorscheck"}
VParams == {Undefined, "", "userName"}
VCallbacks == {Undefined, "notfn", FnNoColors}
VNames == {Undefined, "", "flag"}

VControls ==
  {Ctl(sc, ty, id, nm, cb) :
     sc \in VScopes, ty \in VTypes, id \in VIds, nm \in VParams, cb \in VCallbacks}

VFewControls ==
  { WidgetCtl("local", "options-colorscheck"),
    GetCtl("get", Undefined),
    CustomCtl("get", "notfn"),
    Ctl("global", "bogus", Undefined, Undefined, Undefined) }

VRegistries ==
  {<<Setting(n, False, Null, <<c>>)>> : n \in VNames, c \in VControls}
    \cup {<<SettingWithoutControls(n, Null, Null), Setting("rtl", False, Fn, <<c>>)>> :
            n \in VNames, c \in VFewControls}
    \cup {<<Setting("flag", False, Fn, <<c1, c2>>)>> : c1 \in VFewControls, c2 \in VFewControls}
    \cup {RegistryA, RegistryB}

VIgnored == {<<>>, <<"local">>, <<"bogus">>, <<"get", "bogus", "nope">>}

VInit ==
  /\ settings \in VRegistries
  /\ ignoredScopes \in VIgnored
  /\ urlVars = getUrlVars(HrefUserName)
  /\ dom = DomAll(Checkbox)
  /\ val = [i \in 1..Len(settings) |-> NoVal]
  /\ loaded = FALSE
  /\ widgets = [id \in WidgetIds |-> Undefined]
  /\ cookie = <<>>
  /\ lastOp = NoOp
  /\ lastSet = NoSet
  /\ nops = 0

VNext == LoadSettings

SpecValidator == VInit /\ [][VNext]_vars

\* ------------------------------------------------------------ properties
Ignored == {ignoredScopes[k] : k \in 1..Len(ignoredScopes)}

SettingIds == 1..Len(settings)

\* the position of a scope in the fixed order local, global, get
Rank(s) == CASE s = "local" -> 1 [] s = "global" -> 2 [] s = "get" -> 3

\* the scopes of setting i that are not ignored and hold a defined value
Eligible(i) == {s \in {"local", "global", "get"} : s \notin Ignored /\ val[i].v[s] # Undefined}

\* what the resolver has to return for setting i
Resolves(i, ret) ==
  IF Eligible(i) = {} THEN ret = Null
  ELSE \E s \in Eligible(i) :
         /\ \A t \in Eligible(i) : Rank(s) <= Rank(t)
         /\ ret = val[i].v[s]

HasValue(v) == v \notin {Undefined, Null}

\* C2: once loadSettings has completed, getValue(name) is non-null exactly
\* when a scope that is not ignored holds a seeded value for the setting.
C2_NonNullWhenSeeded ==
  loaded =>
    \A i \in SettingIds :
      (getValue(val, settings[i].name).ret # Null)
        <=> (\E s \in ScopeSet : s \notin Ignored /\ HasValue(val[i].v[s]))

\* the number of writes to the store among the events of a call
Saves(events) == Cardinality({k \in 1..Len(events) : events[k].type = "save"})

\* the store holds the exported local-scope mapping of the values vals
\* under "epl_prefs", and the call's last event is that write
EndsWithSave(events, vals, store) ==
  /\ Len(events) >= 1
  /\ events[Len(events)].type = "save"
  /\ events[Len(events)].target = "epl_prefs"
  /\ exportSettings(vals, "local").thrown = ""
  /\ events[Len(events)].value = exportSettings(vals, "local").out
  /\ DOMAIN store = {"epl_prefs"}
  /\ store["epl_prefs"] = exportSettings(vals, "local").out

C3_Step ==
  /\ (lastOp'.op = "loadSettings" /\ ~loaded /\ lastOp'.thrown = "") =>
        /\ loaded'
        /\ Saves(lastOp'.events) = 1
        /\ EndsWithSave(lastOp'.events, val', cookie')
  /\ (lastOp'.op \in {"loadSettings", "setValue"} /\ ~loaded /\ ~loaded') =>
        /\ Saves(lastOp'.events) = 0
        /\ cookie' = cookie
  /\ (lastOp'.op = "setValue" /\ loaded /\ lastOp'.thrown = "") =>
        /\ Saves(lastOp'.events) = 1
        /\ EndsWithSave(lastOp'.events, val', cookie')
  /\ (lastOp'.op \notin {"loadSettings", "setValue"}) => cookie' = cookie
  /\ (DOMAIN cookie' # {}) => loaded'

C4_PayloadRecordsLocal ==
  (lastOp.op = "setValue" /\ lastOp.thrown = "" /\ lastOp.scope = "local" /\ loaded) =>
    /\ DOMAIN cookie = {"epl_prefs"}
    /\ \A i \in SettingIds :
          cookie["epl_prefs"][settings[i].name]["local"] =
            (IF settings[i].name = lastOp.name THEN lastOp.value ELSE val[i].v["local"])

C5_Step ==
  (/\ lastOp'.op = "setValue"
   /\ \/ lastOp'.scope \notin {"local", "global", "get"}
      \/ \A i \in SettingIds : settings[i].name # lastOp'.name) =>
    /\ lastOp'.thrown # ""
    /\ lastOp'.events = <<>>
    /\ val' = val
    /\ ignoredScopes' = ignoredScopes
    /\ loaded' = loaded
    /\ widgets' = widgets
    /\ cookie' = cookie

\* C5: a setValue call with a scope outside {local, global, get}, or with a
\* name that matches no setting, fails, leaves the values, the ignored
\* scopes, the loaded flag, the widgets and the store as they were, and
\* has no effect (no widget write, no callback, no write to the store).
C5_RejectedSetValue == [][C5_Step]_vars

\* C5 witness: in the loaded state, where a setValue would write a widget,
\* call back and persist, a call naming no setting and one naming no scope
\* have failed.
C5_Witness ==
  /\ loaded
  /\ lastOp.op = "setValue"
  /\ lastOp.thrown # ""
  /\ \/ lastOp.name = "nosuch" /\ lastOp.scope = "local"
     \/ lastOp.name = "ignoreGlobal" /\ lastOp.scope = "bogus"

\* every scope but s is ignored, s is not
OthersIgnored(s) == Ignored = {"local", "global", "get"} \ {s}

\* C6 as claimed: after a setValue(name, s, v) that returned, with the two
\* other scopes ignored and s not, getValue(name) returns exactly v.
C6_ReturnsExactly ==
  (lastSet.returned /\ OthersIgnored(lastSet.scope)) =>
    getValue(val, lastSet.name).ret = lastSet.value

\* C6 amended: after a setValue(name, s, v) that returned, with the two
\* other scopes ignored and s not, getValue(name) returns exactly v for
\* every v other than undefined, and null for v undefined.
C6_ReturnsDefined ==
  (lastSet.returned /\ OthersIgnored(lastSet.scope)) =>
    /\ getValue(val, lastSet.name).thrown = ""
    /\ getValue(val, lastSet.name).ret =
         (IF lastSet.value = Undefined THEN Null ELSE lastSet.value)
    /\ (lastOp.op = "getValue" /\ lastOp.name = lastSet.name) =>
         lastOp.ret = (IF lastSet.value = Undefined THEN Null ELSE lastSet.value)

\* C6 witness: setValue(name, "global", "de") returned, local and get were
\* ignored, and a getValue call for the setting returned "de" although
\* scope local holds a value.
C6_Witness ==
  /\ lastSet.returned
  /\ lastSet.scope = "global"
  /\ lastSet.value = "de"
  /\ Ignored = {"local", "get"}
  /\ lastOp.op = "getValue"
  /\ lastOp.name = lastSet.name
  /\ lastOp.ret = "de"
  /\ \E i \in SettingIds : settings[i].name = lastSet.name /\ val[i].v["local"] # Undefined

C7_WellFormed ==
  /\ \A k \in 1..Len(ignoredScopes) : ignoredScopes[k] \in {"local", "global", "get"}
  /\ \A k, m \in 1..Len(ignoredScopes) : ignoredScopes[k] = ignoredScopes[m] => k = m

C7_Step ==
  (lastOp'.op = "setIgnoreScope") =>
    /\ (lastOp'.scope \notin {"local", "global", "get"}) =>
         (lastOp'.thrown # "" /\ ignoredScopes' = ignoredScopes)
    /\ (lastOp'.scope \in {"local", "global", "get"}) => lastOp'.thrown = ""
    /\ (Truthy(lastOp'.value) /\ lastOp'.scope \in Ignored) =>
         ignoredScopes' = ignoredScopes
    /\ (~Truthy(lastOp'.value) /\ lastOp'.scope \notin Ignored) =>
         ignoredScopes' = ignoredScopes

\* C7: the ignored-scope array always holds recognized scopes only, each
\* at most once; setIgnoreScope(s, true) on an ignored s and
\* setIgnoreScope(s, false) on a non-ignored s leave it as it was; a call
\* with an unrecognized scope fails and leaves it as it was.
C7_IgnoreScopeIdempotent == []C7_WellFormed /\ [][C7_Step]_vars

\* C7 witness: all three scopes are ignored and the last call,
\* setIgnoreScope(s, true), named a scope that is not the last one pushed:
\* s was ignored already and the call changed nothing.
C7_Witness ==
  /\ lastOp.op = "setIgnoreScope"
  /\ lastOp.thrown = ""
  /\ lastOp.value = True
  /\ Len(ignoredScopes) = 3
  /\ ignoredScopes[3] # lastOp.scope

\* the mapping `out` of an export asked for scope `scope` (Undefined: all)
ExportWellFormed(out, scope) ==
  \A i \in SettingIds : \A sc \in {"local", "global", "get"} :
    LET x == out[settings[i].name][sc] IN
    /\ (x # Undefined) =>
         /\ x = val[i].v[sc]
         /\ x \notin {Undefined, Null, False, ""}
         /\ (scope # Undefined => sc = scope)

\* C8: once every setting is seeded, exportSettings(scope) holds no pair
\* whose recorded value is falsy or undefined, holds only pairs of the
\* scope asked for when one is given, and every pair of
\* exportSettings("local") is in exportSettings() with the same value.
C8_ExportOmitsFalsy ==
  (\A i \in SettingIds : val[i].defined) =>
    /\ \A scope \in {Undefined, "local", "global", "get"} :
          /\ exportSettings(val, scope).thrown = ""
          /\ ExportWellFormed(exportSettings(val, scope).out, scope)
    /\ \A i \in SettingIds :
          LET l == exportSettings(val, "local").out[settings[i].name]["local"] IN
          l # Undefined => exportSettings(val, Undefined).out[settings[i].name]["local"] = l
    /\ (lastOp.op = "exportSettings" /\ lastOp.thrown = "") =>
          ExportWellFormed(lastOp.out, lastOp.scope)

\* C8 witness: an exportSettings("local") call has returned a mapping that
\* holds the truthy local value of one setting and leaves out the local
\* value false of another.
C8_Witness ==
  /\ lastOp.op = "exportSettings"
  /\ lastOp.thrown = ""
  /\ lastOp.scope = "local"
  /\ \E i, m \in SettingIds :
        /\ val[i].v["local"] = False
        /\ lastOp.out[settings[i].name]["local"] = Undefined
        /\ val[m].v["local"] = "de"
        /\ lastOp.out[settings[m].name]["local"] = "de"

\* The defects of a registry reg and an ignored-scope array ign.
Lacks(x) == x \in {Undefined, Null, ""}

Defect(kind, arg, i, j) == [kind |-> kind, arg |-> arg, setting |-> i, control |-> j]

Defects(reg, ign) ==
  {Defect("ignored", ign[k], -1, -1) :
     k \in {k \in 1..Len(ign) : ign[k] \notin {"local", "global", "get"}}}
  \cup {Defect("name", Undefined, i - 1, -1) : i \in {i \in 1..Len(reg) : Lacks(reg[i].name)}}
  \cup {Defect("controls", Undefined, i - 1, -1) :
          i \in {i \in 1..Len(reg) : ~reg[i].hasControls}}
  \cup UNION {
      LET cs == reg[i].controls IN
        {Defect("type", Undefined, i - 1, j - 1) :
           j \in {j \in 1..Len(cs) : cs[j].type \notin {"control", "get", "custom"}}}
        \cup {Defect("scope", Undefined, i - 1, j - 1) :
                j \in {j \in 1..Len(cs) : cs[j].scope \notin {"local", "global", "get"}}}
        \cup {Defect("id", Undefined, i - 1, j - 1) :
                j \in {j \in 1..Len(cs) : cs[j].type = "control" /\ Lacks(cs[j].id)}}
        \cup {Defect("param", Undefined, i - 1, j - 1) :
                j \in {j \in 1..Len(cs) : cs[j].type = "get" /\ Lacks(cs[j].name)}}
        \cup {Defect("callback", Undefined, i - 1, j - 1) :
                j \in {j \in 1..Len(cs) :
                         cs[j].type = "custom" /\ cs[j].callback \notin {Fn, FnNoColors}}}
      : i \in {i \in 1..Len(reg) : reg[i].hasControls} }

\* the messages that report a defect of each kind
Reports(kind) ==
  CASE kind = "ignored" -> {"ignored scope does not exist"}
    [] kind = "name" -> {"name of setting not given"}
    [] kind = "controls" -> {"controls of setting not given"}
    [] kind = "type" -> {"no type for control", "invalid type"}
    [] kind = "scope" -> {"no scope for control", "invalid scope"}
    [] kind = "id" -> {"ID of control not given"}
    [] kind = "param" -> {"Name of get-parameter not given"}
    [] kind = "callback" -> {"Callback not given", "Callback is not a function"}

Logged(d, errors) ==
  \E k \in 1..Len(errors) :
    /\ errors[k].msg \in Reports(d.kind)
    /\ errors[k].arg = d.arg
    /\ errors[k].setting = d.setting
    /\ errors[k].control = d.control

\* the outcome [thrown, errors] of a validation is the one the defects ask for
Judged(reg, ign, thrown, errors) ==
  /\ (Defects(reg, ign) # {}) =>
        /\ thrown = DefinitionErrors
        /\ \A d \in Defects(reg, ign) : Logged(d, errors)
  /\ (Defects(reg, ign) = {}) =>
        /\ thrown # DefinitionErrors
        /\ errors = <<>>

\* C9: for every registry and ignored-scope array, every defect (a get
\* binding without its parameter name, a binding with a missing or
\* unrecognized type or scope, a widget binding without its id, a custom
\* binding without a callable callback, a setting without a name or
\* without a controls list, an unrecognized ignored scope) is logged as at
\* least one error and the validation fails; with no defect it passes
\* with no error logged. The loadSettings call that ran it ends the same way.
C9_ValidatorRejects ==
  /\ Judged(settings, ignoredScopes,
            checkSettingsArray(settings, ignoredScopes).thrown,
            checkSettingsArray(settings, ignoredScopes).errors)
  /\ (lastOp.op = "loadSettings") =>
        Judged(settings, ignoredScopes, lastOp.thrown, lastOp.errors)

\* C9 witness: loadSettings has failed on a registry whose first setting
\* has no controls list and whose second has a get binding without its
\* parameter name, with an unrecognized ignored scope: three defects, each
\* logged.
C9_Witness ==
  /\ lastOp.op = "loadSettings"
  /\ lastOp.thrown = DefinitionErrors
  /\ Len(settings) = 2
  /\ ~settings[1].hasControls
  /\ settings[2].controls[1].type = "get"
  /\ settings[2].controls[1].name = Undefined
  /\ ignoredScopes = <<"bogus">>
  /\ Len(lastOp.errors) >= 3

C10_Step ==
  (lastOp'.op = "loadSettings" /\ lastOp'.errors # <<>>) =>
    /\ lastOp'.thrown = DefinitionErrors
    /\ lastOp'.events = <<>>
    /\ val' = val
    /\ \A i \in SettingIds : ~val'[i].defined
    /\ widgets' = widgets
    /\ cookie' = cookie
    /\ loaded' = loaded
    /\ ~loaded'

\* C10: a loadSettings call whose validation logs an error fails with the
\* definition error and has no effect: no setting's values are created or
\* changed, no widget is written, no callback is called, the store is not
\* written and loaded stays false.
C10_ValidationGatesLoading == [][C10_Step]_vars

\* C10 witness: loadSettings has failed on a malformed registry after a
\* setValue call failed too; no setting has values and loaded is false.
C10_Witness ==
  /\ lastOp.op = "loadSettings"
  /\ lastOp.errors # <<>>
  /\ lastOp.thrown = DefinitionErrors
  /\ nops = 2
  /\ ~loaded
  /\ \A i \in SettingIds : ~val[i].defined

\* setting i has a query-parameter binding in scope get whose parameter
\* carries the string p
GetParamIs(i, p) ==
  \E j \in 1..Len(settings[i].controls) :
    /\ settings[i].controls[j].type = "get"
    /\ settings[i].controls[j].scope = "get"
    /\ UrlVar(settings[i].controls[j].name) = p

\* C11: after a loadSettings call that completed, getValue(name) returns
\* for every setting the value of the last scope in the order local,
\* global, get that is not ignored and holds a defined value; for a
\* setting with defaultValue false and a query-parameter binding in scope
\* get whose parameter is "true", with no scope ignored, it returns the
\* boolean true.
C11_LastScopeOverrides ==
  (lastOp.op = "loadSettings" /\ lastOp.thrown = "") =>
    \A i \in SettingIds :
      /\ \A s \in Eligible(i) :
            (\A t \in Eligible(i) : Rank(t) <= Rank(s)) =>
              getValue(val, settings[i].name).ret = val[i].v[s]
      /\ (settings[i].defaultValue = False /\ GetParamIs(i, "true") /\ Ignored = {}) =>
            getValue(val, settings[i].name).ret = True

\* the widget bindings of setting i that a setValue in scope `scope` writes
WidgetBindings(i, scope) ==
  {j \in 1..Len(settings[i].controls) :
     /\ settings[i].controls[j].type = "control"
     /\ settings[i].controls[j].scope = scope}

\* the widget the page holds for binding j of setting i
WidgetOf(i, j) == dom[settings[i].controls[j].id]

\* a widget that exists and is a checkbox input or a select
Supported(el) ==
  /\ el.length # 0
  /\ \/ el.tagName = "INPUT" /\ el.type = "checkbox"
     \/ el.tagName = "SELECT"

\* C12: a setValue call on a seeded setting, with a recognized scope, whose
\* first unusable widget binding of that scope names a widget the page
\* does not hold fails with the control-does-not-exist error, and one whose
\* first unusable widget is neither a checkbox input nor a select fails
\* with an unsupported-control error (the only-checkboxes error of an
\* input, the unsupported-control error of any other element); the error
\* is the outcome of the setValue call.
C12_WidgetErrors ==
  (lastOp.op = "setValue" /\ lastOp.scope \in {"local", "global", "get"}) =>
    \A i \in SettingIds :
      (settings[i].name = lastOp.name /\ val[i].defined) =>
        \A j \in WidgetBindings(i, lastOp.scope) :
          (/\ ~Supported(WidgetOf(i, j))
           /\ \A k \in WidgetBindings(i, lastOp.scope) : k < j => Supported(WidgetOf(i, k))) =>
            IF WidgetOf(i, j).length = 0
            THEN lastOp.thrown = ControlDoesNotExist
            ELSE lastOp.thrown \in {OnlyCheckboxes, UnsupportedControl}

\* the store holds under "epl_prefs" the exported local-scope mapping of
\* the values vals
StoreCurrent(vals, store) ==
  /\ DOMAIN store = {"epl_prefs"}
  /\ exportSettings(vals, "local").thrown = ""
  /\ store["epl_prefs"] = exportSettings(vals, "local").out

C13_Step ==
  (lastOp'.op \in {"setValue", "getValue", "setIgnoreScope"} /\ lastOp'.thrown # "") =>
    /\ \A i \in SettingIds : settings[i].name # lastOp'.name => val'[i] = val[i]
    /\ loaded' => StoreCurrent(val', cookie')

LastGetBinding(i, j) ==
  /\ settings[i].controls[j].type = "get"
  /\ \A k \in 1..Len(settings[i].controls) :
        (k > j /\ settings[i].controls[k].scope = settings[i].controls[j].scope) =>
          settings[i].controls[k].type = "control"

\* what scope `scope` of setting i holds when no binding has recorded
\* anything for it
Unrecorded(i, scope) == IF scope = "local" THEN settings[i].defaultValue ELSE Undefined

\* C14: after a loadSettings call has seeded a setting, for each of its
\* query-parameter bindings: with the parameter absent or empty nothing is
\* recorded for the binding's scope; with the parameter "true" the boolean
\* true is recorded, with "false" the boolean false, with any other
\* string that string; the strings "true" and "false" are never what is
\* recorded.
C14_QueryParamCoercion ==
  (lastOp.op = "loadSettings") =>
    \A i \in SettingIds : val[i].defined =>
      \A j \in 1..Len(settings[i].controls) : LastGetBinding(i, j) =>
        LET p == UrlVar(settings[i].controls[j].name)
            scope == settings[i].controls[j].scope
            recorded == val[i].v[scope]
        IN /\ recorded \notin {"true", "false"}
           /\ CASE p \in {Undefined, ""} -> recorded = Unrecorded(i, scope)
                [] p = "true" -> recorded = True
                [] p = "false" -> recorded = False
                [] OTHER -> recorded = p

\* the position, among the widget writes of a setValue in scope `scope`,
\* of the write to binding j of setting i
WritePos(i, scope, j) == Cardinality({k \in WidgetBindings(i, scope) : k <= j})

\* what a widget shows once `value` is pushed to it
Shown(el, value) ==
  IF el.tagName = "SELECT" THEN value
  ELSE IF value \in {Undefined, Null, False, ""} THEN False ELSE True

\* event e is of type `type`, on `target`, with value `value`
IsEvent(e, type, target, value) ==
  /\ e.type = type
  /\ e.target = target
  /\ e.value = value

C15_Step ==
  (lastOp'.op = "setValue" /\ lastOp'.thrown = "") =>
    \E i \in SettingIds :
      LET name == lastOp'.name
          scope == lastOp'.scope
          value == lastOp'.value
          events == lastOp'.events
          W == WidgetBindings(i, scope)
          n == Cardinality(W)
          cb == IF settings[i].callback \in {Fn, FnNoColors} THEN 1 ELSE 0
          sv == IF loaded THEN 1 ELSE 0
      IN /\ settings[i].name = name
         /\ val' = [val EXCEPT ![i].v[scope] = value]
         /\ loaded' = loaded
         /\ Len(events) = n + cb + sv
         /\ \A j \in W :
               IsEvent(events[WritePos(i, scope, j)], "widget",
                       settings[i].controls[j].id, value)
         /\ \A id \in WidgetIds :
               IF \E j \in W : settings[i].controls[j].id = id
               THEN widgets'[id] = Shown(dom[id], value)
               ELSE widgets'[id] = widgets[id]
         /\ (cb = 1) =>
               IsEvent(events[n + 1], "callback", name, getValue(val', name).ret)
         /\ (sv = 1) =>
               /\ IsEvent(events[n + cb + 1], "save", "epl_prefs",
                          exportSettings(val', "local").out)
               /\ StoreCurrent(val', cookie')
         /\ (sv = 0) => cookie' = cookie

\* C15: every setValue(name, scope, value) call that returns has recorded
\* value at values[scope] and changed no other value; its effects are, in
\* this order: one write of value to each widget binding of the setting
\* whose scope is `scope`, in binding order, and to no other widget; then,
\* when the setting has a callback, exactly one call of it with the value
\* getValue(name) has after the record; then, when loaded, one write of
\* the exported local-scope mapping to the store, and none when not
\* loaded. This holds whatever value was recorded before, so also for a
\* call that repeats the recorded value.
C15_SetValueEffectOrder == [][C15_Step]_vars

\* C15 witness: in the loaded state setValue("ignoreGlobal", "local", false)
\* has returned, repeating the default false that loadSettings had
\* recorded and committed: the widget was written, then the callback was
\* called with the effective value false, then the store was written.
C15_Witness ==
  /\ loaded
  /\ nops = 2
  /\ lastOp.op = "setValue"
  /\ lastOp.thrown = ""
  /\ lastOp.name = "ignoreGlobal"
  /\ lastOp.scope = "local"
  /\ lastOp.value = False
  /\ Len(lastOp.events) = 3
  /\ IsEvent(lastOp.events[1], "widget", "options-ignore-global", False)
  /\ IsEvent(lastOp.events[2], "callback", "ignoreGlobal", False)
  /\ lastOp.events[3].type = "save"

\* the settings that have a callback
WithCallback == {i \in SettingIds : settings[i].callback \in {Fn, FnNoColors}}

\* the scopes of setting i that hold a defined value in vals
DefinedScopes(vals, i) == {s \in {"local", "global", "get"} : vals[i].v[s] # Undefined}

\* the setting an effect belongs to: the one called back, or the one that
\* owns the widget written
OwnerOf(e) ==
  CHOOSE i \in SettingIds :
    IF e.type = "callback" THEN settings[i].name = e.target
    ELSE \E j \in 1..Len(settings[i].controls) :
           settings[i].controls[j].type = "control" /\ settings[i].controls[j].id = e.target

\* the scope of the binding of the widget an effect has written
WrittenScope(e) ==
  LET i == OwnerOf(e) IN
  settings[i].controls[CHOOSE j \in 1..Len(settings[i].controls) :
                          settings[i].controls[j].type = "control"
                          /\ settings[i].controls[j].id = e.target].scope

\* the positions in events of the callbacks of setting i
CallbacksOf(events, i) ==
  {a \in 1..Len(events) : events[a].type = "callback" /\ events[a].target = settings[i].name}

C16_Step ==
  (lastOp'.op = "loadSettings" /\ lastOp'.thrown = "") =>
    LET events == lastOp'.events
        F == Cardinality(WithCallback)
        last == Len(events)
        commits == {a \in 1..(last - F - 1) : events[a].type # "save"}
        k(i) == Cardinality(DefinedScopes(val', i))
    IN /\ loaded'
       /\ \A i \in SettingIds : val'[i].defined
       /\ last >= F + 1
       \* the commits: setting after setting, scope after scope
       /\ \A a, b \in commits : a < b => OwnerOf(events[a]) <= OwnerOf(events[b])
       /\ \A a, b \in commits :
             (/\ a < b
              /\ events[a].type = "widget"
              /\ events[b].type = "widget"
              /\ OwnerOf(events[a]) = OwnerOf(events[b])) =>
               Rank(WrittenScope(events[a])) <= Rank(WrittenScope(events[b]))
       /\ \A i \in SettingIds : \A j \in 1..Len(settings[i].controls) :
             (settings[i].controls[j].type = "control") =>
               LET s == settings[i].controls[j].scope
                   writes == {a \in commits : /\ events[a].type = "widget"
                                              /\ events[a].target = settings[i].controls[j].id}
               IN /\ Cardinality(writes) = (IF s \in DefinedScopes(val', i) THEN 1 ELSE 0)
                  /\ \A a \in writes :
                        /\ events[a].value = val'[i].v[s]
                        /\ (i \in WithCallback) =>
                              Cardinality({c \in CallbacksOf(events, i) : c < a})
                                = Cardinality({t \in DefinedScopes(val', i) : Rank(t) < Rank(s)})
       /\ Cardinality({a \in 1..(last - F - 1) : events[a].type = "save"})
            = (IF loaded
               THEN Cardinality({p \in SettingIds \X {"local", "global", "get"} :
                                   p[2] \in DefinedScopes(val', p[1])})
               ELSE 0)
       \* the callbacks called once all settings are committed, then the save
       /\ \A i \in WithCallback :
             LET pos == last - F - 1 + Cardinality({m \in WithCallback : m <= i})
             IN IsEvent(events[pos], "callback", settings[i].name,
                        getValue(val', settings[i].name).ret)
       /\ events[last].type = "save"
       /\ StoreCurrent(val', cookie')
       \* k commits and one more call
       /\ \A i \in SettingIds :
             /\ Cardinality(CallbacksOf(events, i))
                  = (IF i \in WithCallback THEN k(i) + 1 ELSE 0)
             /\ \A a \in CallbacksOf(events, i) :
                   events[a].value = getValue(val', settings[i].name).ret
             /\ Cardinality({a \in CallbacksOf(events, i) : a <= last - F - 1})
                  = (IF i \in WithCallback THEN k(i) ELSE 0)

\* C16: a loadSettings call that completes leaves every setting seeded
\* and has committed the settings in registry order, each setting's
\* defined scopes in the order local, global, get (one widget write per
\* widget binding of a defined scope, the setting's callback called after
\* the writes of each scope), all before the commits of the next setting;
\* after the last commit it has called the callback of each setting that
\* has one once more, in registry order, with the setting's effective
\* value, and then written the store. A setting with a callback and k
\* defined scopes has had its callback called exactly k+1 times, a
\* setting without a callback never.
C16_LoadOrder == [][C16_Step]_vars

\* C16 witness: a loadSettings call has completed on a registry whose
\* second setting, ignoreGlobal, has a callback, a widget in scope local
\* and the two defined scopes local and get: its widget was written once
\* and its callback called three times, with the effective value false.
C16_Witness ==
  /\ lastOp.op = "loadSettings"
  /\ lastOp.thrown = ""
  /\ \E i \in SettingIds :
        /\ settings[i].name = "ignoreGlobal"
        /\ DefinedScopes(val, i) = {"local", "get"}
        /\ Cardinality(CallbacksOf(lastOp.events, i)) = 3
  /\ IsEvent(lastOp.events[1], "widget", "options-ignore-global", False)
  /\ IsEvent(lastOp.events[2], "callback", "ignoreGlobal", False)
  /\ IsEvent(lastOp.events[3], "callback", "ignoreGlobal", False)
  /\ IsEvent(lastOp.events[4], "callback", "ignoreGlobal", False)
  /\ lastOp.events[5].type = "save"

\* no binding of setting i seeds a scope: every query parameter it is
\* bound to is absent from the href and no computed binding yields a value
NothingSeeded(i) ==
  \A j \in 1..Len(settings[i].controls) :
    /\ settings[i].controls[j].type = "get" =>
          UrlVar(settings[i].controls[j].name) = Undefined
    /\ settings[i].controls[j].type = "custom" =>
          callCustom(settings[i].controls[j].callback) = Undefined

\* C17: after a loadSettings call, every setting it has seeded holds its
\* defaultValue in scope local, and all settings are seeded when the call
\* completed; with no scope ignored, a setting none of whose query
\* parameters is present and none of whose computed bindings yields a
\* value then resolves to its defaultValue.
C17_DefaultSeedsLocal ==
  (lastOp.op = "loadSettings") =>
    \A i \in SettingIds :
      /\ (lastOp.thrown = "") => val[i].defined
      /\ val[i].defined =>
            /\ val[i].v["local"] = settings[i].defaultValue
            /\ (NothingSeeded(i) /\ Ignored = {}) =>
                  /\ getValue(val, settings[i].name).thrown = ""
                  /\ getValue(val, settings[i].name).ret = settings[i].defaultValue

\* C17 witness: a loadSettings call has completed on a page opened with
\* ?userName=bob: ignoreGlobal, whose default is false and whose query
\* parameter is absent, holds false in scope local and resolves to false,
\* while another setting has a value seeded in scope get.
C17_Witness ==
  /\ lastOp.op = "loadSettings"
  /\ lastOp.thrown = ""
  /\ Ignored = {}
  /\ \E i, m \in SettingIds :
        /\ settings[i].name = "ignoreGlobal"
        /\ settings[i].defaultValue = False
        /\ NothingSeeded(i)
        /\ val[i].v["local"] = False
        /\ getValue(val, "ignoreGlobal").ret = False
        /\ val[m].v["get"] = "bob"

\* the widget bindings <<setting, binding>> a loadSettings call writes
\* when nothing stops it: those of the scopes that the seeding leaves with
\* a defined value
CommittedWidgets ==
  {p \in UNION {{<<i, j>> : j \in 1..Len(settings[i].controls)} : i \in SettingIds} :
     /\ settings[p[1]].controls[p[2]].type = "control"
     /\ seedSetting(p[1])[settings[p[1]].controls[p[2]].scope] # Undefined}

C18_CompletesStep ==
  /\ (lastOp'.op = "loadSettings" /\ lastOp'.errors = <<>>) =>
        /\ lastOp'.thrown = ""
        /\ loaded'
        /\ \A i \in SettingIds : val'[i].defined
  /\ loaded => loaded'

\* C18 as claimed: every loadSettings call whose validation logs no error
\* completes and leaves loaded true and every setting seeded, whatever
\* the query parameters and the widgets of the page; loaded never goes
\* from true to false.
C18_LoadAlwaysCompletes == [][C18_CompletesStep]_vars

C18_Step ==
  /\ (lastOp'.op = "loadSettings" /\ lastOp'.errors = <<>>) =>
        /\ (lastOp'.thrown = "")
             <=> (\A p \in CommittedWidgets : Supported(WidgetOf(p[1], p[2])))
        /\ (lastOp'.thrown = "") =>
              /\ loaded'
              /\ \A i \in SettingIds : val'[i].defined
        /\ (lastOp'.thrown # "") =>
              /\ lastOp'.thrown \in {TypeError, OnlyCheckboxes, UnsupportedControl}
              /\ loaded' = loaded
              /\ cookie' = cookie
  /\ loaded => loaded'

\* C18 amended: a loadSettings call whose validation logs no error
\* completes, leaving loaded true and every setting seeded, exactly when
\* every widget binding of a scope that the seeding gives a value has a
\* widget on the page that is a checkbox input or a select; otherwise it
\* fails with the error of the first widget it cannot write and leaves
\* loaded and the store as they were. loaded never goes from true to
\* false.
C18_LoadCompletesWithUsableWidgets == [][C18_Step]_vars

\* C18 witness: validation passed and loadSettings failed on a text input
\* bound in scope local, after it had committed the first setting (its
\* callback was called); loaded is false and the second setting is seeded.
C18_Witness ==
  /\ lastOp.op = "loadSettings"
  /\ lastOp.errors = <<>>
  /\ lastOp.thrown = OnlyCheckboxes
  /\ ~loaded
  /\ Len(lastOp.events) >= 1
  /\ lastOp.events[1].type = "callback"
  /\ val[2].defined
  /\ cookie = <<>>

C19_Step ==
  (lastOp'.op \in {"getValue", "getSetting", "exportSettings", "setIgnoreScope"}) =>
    /\ val' = val
    /\ loaded' = loaded
    /\ widgets' = widgets
    /\ cookie' = cookie
    /\ lastOp'.events = <<>>
    /\ (lastOp'.op # "setIgnoreScope") => ignoredScopes' = ignoredScopes

\* C19: a getValue, getSetting or exportSettings call changes nothing, and
\* a setIgnoreScope call changes the ignored scopes at most: none of them
\* changes a setting's values or the loaded flag, writes a widget, calls a
\* callback or writes the store, also when the toggle changes the
\* effective value of a setting that has a callback.
C19_ReadsChangeNothing == [][C19_Step]_vars

\* C19 witness: in the loaded state setIgnoreScope("local", true) has
\* returned and changed the effective value of a setting that has a
\* callback from its local value to the value of scope get; no callback
\* was called and nothing was written.
C19_Witness ==
  /\ loaded
  /\ lastOp.op = "setIgnoreScope"
  /\ lastOp.thrown = ""
  /\ lastOp.scope = "local"
  /\ lastOp.value = True
  /\ Ignored = {"local"}
  /\ lastOp.events = <<>>
  /\ \E i \in WithCallback :
        /\ val[i].v["local"] # Undefined
        /\ val[i].v["get"] # Undefined
        /\ val[i].v["get"] # val[i].v["local"]
        /\ getValue(val, settings[i].name).ret = val[i].v["get"]

\* some setting has no value array yet
Unseeded == {i \in SettingIds : ~val[i].defined}

\* the call of the step names the unseeded setting i
NamesUnseeded(op, i) == i \in Unseeded /\ settings[i].name = op.name

\* the step has changed nothing and had no effect
C20_NoEffect ==
  /\ val' = val
  /\ ignoredScopes' = ignoredScopes
  /\ loaded' = loaded
  /\ widgets' = widgets
  /\ cookie' = cookie
  /\ lastOp'.events = <<>>

C20_AllFailStep ==
  /\ (lastOp'.op = "getValue" /\ \E i \in SettingIds : NamesUnseeded(lastOp', i)) =>
        (lastOp'.thrown # "" /\ C20_NoEffect)
  /\ (/\ lastOp'.op = "setValue"
      /\ lastOp'.scope \in {"local", "global", "get"}
      /\ \E i \in SettingIds : NamesUnseeded(lastOp', i)) =>
        (lastOp'.thrown # "" /\ C20_NoEffect)
  /\ (lastOp'.op = "exportSettings" /\ Unseeded # {}) =>
        (lastOp'.thrown # "" /\ C20_NoEffect)
  /\ (/\ lastOp'.op = "setIgnoreScope"
      /\ lastOp'.scope \in {"local", "global", "get"}
      /\ Unseeded # {}) =>
        lastOp'.thrown = ""

\* C20 as claimed: while a setting has no value array, every getValue
\* call that names it, every setValue call that names it with a recognized
\* scope and every exportSettings call fails, changes nothing, calls no
\* callback and writes nothing to the store; a setIgnoreScope call with a
\* recognized scope returns.
C20_UnseededCallsFail == [][C20_AllFailStep]_vars

C20_Step ==
  /\ (lastOp'.op = "getValue" /\ \E i \in SettingIds : NamesUnseeded(lastOp', i)) =>
        /\ C20_NoEffect
        /\ IF Ignored = {"local", "global", "get"}
           THEN lastOp'.thrown = "" /\ lastOp'.ret = Null
           ELSE lastOp'.thrown # ""
  /\ (/\ lastOp'.op = "setValue"
      /\ lastOp'.scope \in {"local", "global", "get"}
      /\ \E i \in SettingIds : NamesUnseeded(lastOp', i)) =>
        (lastOp'.thrown # "" /\ C20_NoEffect)
  /\ (lastOp'.op = "exportSettings" /\ Unseeded # {}) =>
        (lastOp'.thrown # "" /\ C20_NoEffect)
  /\ (/\ lastOp'.op = "setIgnoreScope"
      /\ lastOp'.scope \in {"local", "global", "get"}
      /\ Unseeded # {}) =>
        lastOp'.thrown = ""

\* C20 amended: while a setting has no value array, every getValue call
\* that names it fails when some scope is not ignored and returns null
\* when all three scopes are ignored; every setValue call that names it
\* with a recognized scope and every exportSettings call fails; none of
\* these calls changes anything, calls a callback or writes to the store;
\* a setIgnoreScope call with a recognized scope returns.
C20_UnseededCallsFailUnlessAllIgnored == [][C20_Step]_vars

\* C20 witness: before any loadSettings call, with all three scopes
\* ignored, getValue("language") has returned null.
C20_Witness ==
  /\ nops = 0
  /\ ~loaded
  /\ Unseeded = SettingIds
  /\ Ignored = {"local", "global", "get"}
  /\ lastOp.op = "getValue"
  /\ lastOp.name = "language"
  /\ lastOp.thrown = ""
  /\ lastOp.ret = Null

====
